---------------------------- MODULE Spec2Model ----------------------------
(***************************************************************************)
(* A model of packages/remax-cli/src/web/webpackConfig.web.ts: the         *)
(* module-level webpack-chain builder `config`, the helpers useLoader and  *)
(* prepare, and the exported webpackConfig(options, target).               *)
(*                                                                         *)
(* File paths, loader ids and extensions are sequences of one-character    *)
(* strings, so that path.extname, String.replace, lodash camelCase and the *)
(* regular expressions of the rules are computed character by character.   *)
(***************************************************************************)
EXTENDS Integers, Sequences, FiniteSets, TLC

(***************************************************************************)
(* Bounds of the model.                                                    *)
(***************************************************************************)
\* number of webpackConfig calls made in one process
MaxCalls == 2
\* longest page list of one call's entries
MaxPages == 2

(***************************************************************************)
(* Characters and strings.                                                 *)
(***************************************************************************)
LowerAlpha ==
  <<"a","b","c","d","e","f","g","h","i","j","k","l","m",
    "n","o","p","q","r","s","t","u","v","w","x","y","z">>

UpperAlpha ==
  <<"A","B","C","D","E","F","G","H","I","J","K","L","M",
    "N","O","P","Q","R","S","T","U","V","W","X","Y","Z">>

toLowerChar(c) ==
  IF \E i \in 1..26 : UpperAlpha[i] = c
    THEN LowerAlpha[CHOOSE i \in 1..26 : UpperAlpha[i] = c]
    ELSE c

toUpperChar(c) ==
  IF \E i \in 1..26 : LowerAlpha[i] = c
    THEN UpperAlpha[CHOOSE i \in 1..26 : LowerAlpha[i] = c]
    ELSE c

toLowerCase(s) == [i \in 1..Len(s) |-> toLowerChar(s[i])]

\* s.startsWith(p), i.e. s.indexOf(p) === 0
StartsWith(s, p) ==
  /\ Len(p) <= Len(s)
  /\ \A i \in 1..Len(p) : s[i] = p[i]

EndsWith(s, p) ==
  /\ Len(p) <= Len(s)
  /\ \A i \in 1..Len(p) : s[Len(s) - Len(p) + i] = p[i]

\* t occurs in s at (1-based) position k
OccursAt(s, t, k) ==
  /\ k >= 1
  /\ k + Len(t) - 1 <= Len(s)
  /\ \A i \in 1..Len(t) : s[k + i - 1] = t[i]

\* String.prototype.replace(t, '') with a string pattern: the FIRST
\* occurrence of t, wherever it is, is removed.
replaceFirst(s, t) ==
  IF \E k \in 1..(Len(s) + 1) : OccursAt(s, t, k)
    THEN LET k == CHOOSE k \in 1..(Len(s) + 1) :
                    /\ OccursAt(s, t, k)
                    /\ \A j \in 1..(k - 1) : ~OccursAt(s, t, j)
         IN SubSeq(s, 1, k - 1) \o SubSeq(s, k + Len(t), Len(s))
    ELSE s

\* index of the last occurrence of character c in s, 0 when there is none
lastIndexOf(s, c) ==
  IF \E i \in 1..Len(s) : s[i] = c
    THEN CHOOSE i \in 1..Len(s) :
           /\ s[i] = c
           /\ \A j \in (i + 1)..Len(s) : s[j] # c
    ELSE 0

\* path.basename(p)
basename(p) == SubSeq(p, lastIndexOf(p, "/") + 1, Len(p))

\* path.extname(p): from the last '.' of the basename to the end; '' when the
\* basename has no '.' or only a leading one.
extname(p) ==
  LET b == basename(p)
      d == lastIndexOf(b, ".")
  IN IF d <= 1 THEN <<>> ELSE SubSeq(b, d, Len(b))

\* path.join(a, b) for normalised segments: an empty segment is skipped.
pathJoin(a, b) ==
  IF b = <<>> THEN a
  ELSE IF a = <<>> THEN b
  ELSE a \o <<"/">> \o b

\* one pattern character of new RegExp(`${ext}$`) against one input
\* character: '.' is the regular-expression wildcard, a letter is itself.
patternCharMatches(pc, c) == IF pc = "." THEN c # "\n" ELSE pc = c

\* s.replace(new RegExp(`${ext}$`), ''): the pattern has a fixed length and is
\* anchored at the end, so it can only match the last Len(ext) characters.
stripExtPattern(s, ext) ==
  IF /\ Len(ext) <= Len(s)
     /\ \A i \in 1..Len(ext) :
          patternCharMatches(ext[i], s[Len(s) - Len(ext) + i])
    THEN SubSeq(s, 1, Len(s) - Len(ext))
    ELSE s


(***************************************************************************)
(* The loader ids the assembler resolves, and the files of the model.      *)
(***************************************************************************)
idBabel == <<"b","a","b","e","l">>
idPostcss == <<"p","o","s","t","c","s","s">>
idLess == <<"l","e","s","s">>
idSass == <<"s","a","s","s">>
idStylus == <<"s","t","y","l","u","s">>
idCss == <<"c","s","s">>
idJson == <<"j","s","o","n">>
idRemaxDefine == <<"r","e","m","a","x","-","d","e","f","i","n","e">>
idFile == <<"f","i","l","e">>
idResolvePlatform ==
  <<"r","e","s","o","l","v","e","-","p","l","a","t","f","o","r","m">>

LoaderIds ==
  { idBabel, idPostcss, idLess, idSass, idStylus, idCss, idJson,
    idRemaxDefine, idFile, idResolvePlatform }

\* __dirname of the compiled module
dirname == <<"/","d">>

\* the directory require.resolve finds installed packages in
nodeModules == <<"/","n">>

(***************************************************************************)
(* lodash camelCase for ids made of letters and '-': the separators are    *)
(* dropped, the first word is lower case, each later word is capitalised.  *)
(***************************************************************************)
camelCase(id) ==
  LET letters == {i \in 1..Len(id) : id[i] # "-"}
      \* the position in id of the k-th letter
      at(k) == CHOOSE i \in letters : Cardinality({j \in letters : j <= i}) = k
      \* a letter starts a later word when a separator is right before it and
      \* some letter came earlier
      startsWord(i) == /\ i > 1
                       /\ id[i - 1] = "-"
                       /\ \E j \in letters : j < i
  IN <<>> \o [k \in 1..Cardinality(letters) |->
               IF startsWord(at(k)) THEN toUpperChar(id[at(k)])
               ELSE toLowerChar(id[at(k)])]

\* path.join(__dirname, './webpack/loaders', camelCase(id) + '.js')
loaderPath(id) ==
  pathJoin(pathJoin(dirname,
                    <<"w","e","b","p","a","c","k","/","l","o","a","d","e","r","s">>),
           camelCase(id) \o <<".","j","s">>)

\* what require.resolve(id + '-loader') names when the package is installed
defaultBinding(id) ==
  pathJoin(nodeModules, id \o <<"-","l","o","a","d","e","r">>)

\* The outcomes of fs.existsSync(loaderPath) inside the try block: the file is
\* there, it is not, or the probe raises.
ProbeOutcomes == {"present", "absent", "error"}

Returned(v) == [kind |-> "return", value |-> v, error |-> "none"]

Thrown(e) == [kind |-> "throw", value |-> <<>>, error |-> e]

\* require.resolve(id + '-loader'): the resolved path, or MODULE_NOT_FOUND
requireResolveLoader(id, installed) ==
  IF installed THEN Returned(defaultBinding(id))
  ELSE Thrown("MODULE_NOT_FOUND")

\* useLoader without the catch block: the probe's error reaches the caller
useLoaderUncaught(id, probe, installed) ==
  CASE probe = "present" -> Returned(loaderPath(id))
    [] probe = "absent" -> requireResolveLoader(id, installed)
    [] probe = "error" -> Thrown("ProbeError")

\* useLoader(id), given what the existence probe does and whether the
\* '<id>-loader' package is installed.  The catch block swallows the probe's
\* error and control falls through to require.resolve.
useLoader(id, probe, installed) ==
  CASE probe = "present" -> Returned(loaderPath(id))
    [] probe = "absent" -> requireResolveLoader(id, installed)
    [] probe = "error" -> requireResolveLoader(id, installed)


(***************************************************************************)
(* Entries and prepare.                                                    *)
(***************************************************************************)
\* options.cwd and options.rootDir
cwd == <<"/","w">>

rootDir == <<"s">>

appJs == <<"/","w","/","s","/","a","p","p",".","j","s">>
appTs == <<"/","w","/","s","/","a","p","p",".","t","s">>
pageAJs == <<"/","w","/","s","/","p","/","a",".","j","s">>
pageATs == <<"/","w","/","s","/","p","/","a",".","t","s">>
pageBJs == <<"/","w","/","s","/","p","/","b",".","j","s">>
pageAJsx == <<"/","w","/","s","/","p","/","a",".","j","s","x">>

\* getEntries(options): the app entry and the ordered page entries of the
\* project the options describe.
getEntries(options) == [app |-> options.app, pages |-> options.pages]

\* the logical name prepare derives from one entry path
entryName(options, entry) ==
  LET ext == extname(entry)
  IN stripExtPattern(
       replaceFirst(entry, pathJoin(options.cwd, options.rootDir) \o <<"/">>),
       ext)

\* m[name] = entry on a JavaScript object: a new key is appended in insertion
\* order, an existing key keeps its place and takes the new value.
objectSet(m, name, entry) ==
  IF \E i \in 1..Len(m) : m[i].name = name
    THEN [m EXCEPT ![CHOOSE i \in 1..Len(m) : m[i].name = name] =
            [name |-> name, entry |-> entry]]
    ELSE Append(m, [name |-> name, entry |-> entry])

\* [entries.app, ...entries.pages].reduce((m, entry) => ..., {}): the callback
\* runs on the entries in order, each time on the object the run before it
\* returned (next).
RECURSIVE reduceEntries(_, _, _)
reduceEntries(options, list, m) ==
  IF list = <<>> THEN m
  ELSE CHOOSE r \in { reduceEntries(options, Tail(list), next) :
                        next \in {objectSet(m, entryName(options, Head(list)),
                                            Head(list))} } : TRUE

\* getEnvironment(options, target): the variables handed to DefinePlugin
getEnvironment(options, target, nodeEnvNow) ==
  [stringified |-> [REMAX_PLATFORM |-> target, NODE_ENV |-> nodeEnvNow]]

prepare(options, target, nodeEnvNow) ==
  LET entries == getEntries(options)
  IN [entries |-> entries,
      entryMap |-> reduceEntries(options, <<entries.app>> \o entries.pages, <<>>),
      env |-> getEnvironment(options, target, nodeEnvNow)]

objectKeys(m) == {m[i].name : i \in 1..Len(m)}


(***************************************************************************)
(* Conditions of a rule (test, include, exclude) and how the bundler       *)
(* evaluates them against a file path.                                     *)
(***************************************************************************)
RegExp(id) == [kind |-> "regexp", id |-> id]

Str(chars) == [kind |-> "string", chars |-> chars]

Undefined == [kind |-> "undefined"]

\* '' as a condition
EmptyString == Str(<<>>)

\* the script matcher imported from '../extensions'
matcher == RegExp("matcher")

\* the resolve.extensions list imported from '../extensions'
extensions == <<".js", ".jsx", ".ts", ".tsx">>

EndsWithAny(s, suffixes) == \E x \in suffixes : EndsWith(s, x)

\* RegExp.prototype.test for each regular expression of the model
RegExpTest(id, path) ==
  CASE id = "matcher" ->
         EndsWithAny(path, {<<".","j","s">>, <<".","j","s","x">>, <<".","t","s">>, <<".","t","s","x">>})
    [] id = "styles" ->
         \* /\.(css|less|sass|stylus)$/i
         EndsWithAny(toLowerCase(path), {<<".","c","s","s">>, <<".","l","e","s","s">>, <<".","s","a","s","s">>, <<".","s","t","y","l","u","s">>})
    [] id = "json" ->
         \* /\.json$/
         EndsWith(path, <<".","j","s","o","n">>)
    [] id = "remaxDefine" ->
         \* /remax\/esm\/createHostComponent.js/i : the '.' is a wildcard
         \E k \in 1..(Len(path) + 1) :
            /\ OccursAt(toLowerCase(path), <<"r","e","m","a","x","/","e","s","m","/","c","r","e","a","t","e","h","o","s","t","c","o","m","p","o","n","e","n","t">>, k)
            /\ k + 29 + 2 <= Len(path)
            /\ path[k + 29] # "\n"
            /\ toLowerChar(path[k + 29 + 1]) = "j"
            /\ toLowerChar(path[k + 29 + 2]) = "s"
    [] id = "images" ->
         \* /\.(png|jpe?g|gif|svg)$/i
         EndsWithAny(toLowerCase(path), {<<".","p","n","g">>, <<".","j","p","g">>, <<".","j","p","e","g">>, <<".","g","i","f">>, <<".","s","v","g">>})
    [] id = "R1" ->
         \* a project's cssModules.regExp: /\.m\.css$/
         EndsWith(path, <<".","m",".","c","s","s">>)
    [] id = "R2" ->
         \* another project's cssModules.regExp: /\.css$/
         EndsWith(path, <<".","c","s","s">>)

\* How the bundler reads the condition '': it is a prefix of every path
\* ("prefix": a string condition matches the paths that start with it), or it
\* is taken to match no file ("never").
EmptyStringReadings == {"prefix", "never"}

ConditionMatches(c, path, reading) ==
  CASE c.kind = "regexp" -> RegExpTest(c.id, path)
    [] c.kind = "string" ->
         IF c.chars = <<>> THEN reading = "prefix"
         ELSE StartsWith(path, c.chars)
    [] c.kind = "undefined" -> TRUE

\* A rule applies to a file when its test matches, one of its include
\* conditions matches (when it has any) and none of its exclude conditions does.
RuleApplies(r, path, reading) ==
  /\ ConditionMatches(r.test, path, reading)
  /\ \/ r.include = <<>>
     \/ \E i \in 1..Len(r.include) : ConditionMatches(r.include[i], path, reading)
  /\ \A i \in 1..Len(r.exclude) : ~ConditionMatches(r.exclude[i], path, reading)


(***************************************************************************)
(* The webpack-chain builder: ChainedMap (rules, uses, plugins: a name is  *)
(* created once and found again afterwards, in creation order) and         *)
(* ChainedSet (entry, include, exclude: add keeps one copy of a value).    *)
(***************************************************************************)
\* new Config()
EmptyConfig ==
  [entry |-> <<>>,
   devtool |-> "undefined",
   mode |-> "undefined",
   context |-> <<>>,
   extensions |-> <<>>,
   alias |-> <<>>,
   outputPath |-> <<>>,
   outputFilename |-> "undefined",
   rules |-> <<>>,
   plugins |-> <<>>]

\* ChainedSet.add
setAdd(values, v) ==
  IF \E i \in 1..Len(values) : values[i] = v THEN values ELSE Append(values, v)

\* ChainedSet.merge: add, for each value of more in order
RECURSIVE setMerge(_, _)
setMerge(values, more) ==
  IF more = <<>> THEN values
  ELSE CHOOSE r \in { setMerge(next, Tail(more)) :
                        next \in {setAdd(values, Head(more))} } : TRUE

NoOptions == [unset |-> TRUE]

EmptyOptions == [empty |-> TRUE]

hasNamed(list, name) == \E i \in 1..Len(list) : list[i].name = name

indexOfNamed(list, name) == CHOOSE i \in 1..Len(list) : list[i].name = name

\* rule.use(useName).loader(loader).options(options) on a rule's uses: the
\* use is created at the end the first time its name is seen and found again
\* afterwards; with NoOptions the chain stops after .loader(...) and the
\* use's options stay what they were.
usesSet(uses, u) ==
  IF hasNamed(uses, u.name)
    THEN LET k == indexOfNamed(uses, u.name)
         IN [uses EXCEPT ![k] =
               [name |-> u.name, loader |-> u.loader,
                options |-> IF u.options = NoOptions THEN uses[k].options
                            ELSE u.options]]
    ELSE Append(uses, u)

\* a chain of .use(...).loader(...).options(...).end() calls, in order
RECURSIVE usesMerge(_, _)
usesMerge(uses, more) ==
  IF more = <<>> THEN uses
  ELSE CHOOSE r \in { usesMerge(next, Tail(more)) :
                        next \in {usesSet(uses, Head(more))} } : TRUE

EmptyRule(name) ==
  [name |-> name, test |-> Undefined, include |-> <<>>, exclude |-> <<>>,
   uses |-> <<>>]

\* One chained statement on config.module.rule(name): the rule is created at
\* the end of the rule list the first time its name is seen and found again
\* afterwards; .test(t) replaces the test, .include.add/.merge and
\* .exclude.add add to the sets the rule already has, .use(...) as above.
ruleChain(cfg, st) ==
  LET old == IF hasNamed(cfg.rules, st.name)
               THEN cfg.rules[indexOfNamed(cfg.rules, st.name)]
               ELSE EmptyRule(st.name)
      new == [name |-> st.name,
              test |-> st.test,
              include |-> setMerge(old.include, st.include),
              exclude |-> setMerge(old.exclude, st.exclude),
              uses |-> usesMerge(old.uses, st.uses)]
  IN IF hasNamed(cfg.rules, st.name)
       THEN [cfg EXCEPT !.rules[indexOfNamed(cfg.rules, st.name)] = new]
       ELSE [cfg EXCEPT !.rules = Append(@, new)]

\* consecutive config.module.rule(name)... statements, in order
RECURSIVE ruleChains(_, _)
ruleChains(cfg, statements) ==
  IF statements = <<>> THEN cfg
  ELSE CHOOSE r \in { ruleChains(next, Tail(statements)) :
                        next \in {ruleChain(cfg, Head(statements))} } : TRUE

\* config.plugin(name): created at the end of the plugin list the first time
\* its name is seen, found again afterwards
plugin(cfg, name) ==
  IF hasNamed(cfg.plugins, name) THEN cfg
  ELSE [cfg EXCEPT !.plugins =
          Append(@, [name |-> name, used |-> FALSE, args |-> NoOptions])]

\* config.plugin(name).use(plugin, args)
pluginUse(cfg, p) ==
  IF hasNamed(cfg.plugins, p.name)
    THEN [cfg EXCEPT !.plugins[indexOfNamed(cfg.plugins, p.name)] =
            [name |-> p.name, used |-> TRUE, args |-> p.args]]
    ELSE [cfg EXCEPT !.plugins =
            Append(@, [name |-> p.name, used |-> TRUE, args |-> p.args])]

\* consecutive config.plugin(name).use(...) statements, in order
RECURSIVE pluginsUse(_, _)
pluginsUse(cfg, list) ==
  IF list = <<>> THEN cfg
  ELSE CHOOSE r \in { pluginsUse(next, Tail(list)) :
                        next \in {pluginUse(cfg, Head(list))} } : TRUE

\* config.toConfig(): the configuration object read off the builder
toConfig(cfg) ==
  [entry |-> cfg.entry,
   devtool |-> cfg.devtool,
   mode |-> cfg.mode,
   context |-> cfg.context,
   resolve |-> [extensions |-> cfg.extensions, alias |-> cfg.alias],
   output |-> [path |-> cfg.outputPath, filename |-> cfg.outputFilename],
   rules |-> cfg.rules,
   plugins |-> [i \in 1..Len(cfg.plugins) |->
                  [name |-> cfg.plugins[i].name, args |-> cfg.plugins[i].args]]]


(***************************************************************************)
(* The environment of the process: which loader files and packages exist.  *)
(***************************************************************************)
\* the ids with a file under <dirname>/webpack/loaders
LocalLoaders == {idRemaxDefine, idResolvePlatform}

\* the ids whose '<id>-loader' package is installed
InstalledLoaders == LoaderIds \ LocalLoaders

\* the style preprocessors styleConfig.enabled(...) reports
EnabledPreprocessors == {"less"}

probeOf(id) == IF id \in LocalLoaders THEN "present" ELSE "absent"

\* the value useLoader(id) yields in this environment
loaderOf(id) == useLoader(id, probeOf(id), id \in InstalledLoaders).value

\* MiniCssExtractPlugin.loader
MiniCssExtractLoader == <<"/","n","/","m","i","n","i","-","c","s","s","-","e","x","t","r","a","c","t","-","p","l","u","g","i","n","/","l","o","a","d","e","r">>

\* styleConfig.getCssModuleConfig(options.cssModules)
getCssModuleConfig(cssModules) ==
  [enabled |-> cssModules.enabled, regExp |-> RegExp(cssModules.regExp)]

\* styleConfig.resolvePostcssConfig(options)
resolvePostcssConfig(options) == options.cwd

\* styleConfig.enabled(name)
enabled(name) == name \in EnabledPreprocessors

\* alias(options)
alias(options) ==
  << [name |-> "@", path |-> pathJoin(options.cwd, options.rootDir)] >>

\* the preprocessor list of lines 96-110, falsy elements filtered out
preprocessCssRules(options) ==
  << [name |-> "postcss", loader |-> loaderOf(idPostcss),
      options |-> [config |-> [path |-> resolvePostcssConfig(options)],
                   plugins |-> <<"pxToUnits">>]] >>
  \o (IF enabled("less")
        THEN << [name |-> "less", loader |-> loaderOf(idLess), options |-> EmptyOptions] >>
        ELSE <<>>)
  \o (IF enabled("node-sass")
        THEN << [name |-> "sass", loader |-> loaderOf(idSass), options |-> EmptyOptions] >>
        ELSE <<>>)
  \o (IF enabled("stylus")
        THEN << [name |-> "stylus", loader |-> loaderOf(idStylus), options |-> EmptyOptions] >>
        ELSE <<>>)


(***************************************************************************)
(* webpackConfig(options, target), on the builder cfg it finds.            *)
(***************************************************************************)
use(name, loader, options) == [name |-> name, loader |-> loader, options |-> options]

\* the entry name 'index' and the entry file 'src/index.js' of line 58
indexName == <<"i","n","d","e","x">>

indexFile == <<"s","r","c","/","i","n","d","e","x",".","j","s">>

\* lines 58-66: entry, devtool, mode, context, resolve and output
settings(cfg, options, nodeEnvNow) ==
  [cfg EXCEPT
     !.entry = IF hasNamed(cfg.entry, indexName)
                 THEN [@ EXCEPT ![indexOfNamed(cfg.entry, indexName)].files =
                         setAdd(@, indexFile)]
                 ELSE Append(@, [name |-> indexName, files |-> <<indexFile>>]),
     !.devtool = IF nodeEnvNow = "development"
                   THEN "cheap-module-source-map" ELSE "false",
     !.mode = IF nodeEnvNow = "unset" THEN "development" ELSE nodeEnvNow,
     !.context = options.cwd,
     !.extensions = setMerge(@, extensions),
     !.alias = setMerge(@, alias(options)),
     !.outputPath = pathJoin(options.cwd, options.output),
     !.outputFilename = "[name].js"]

\* one config.module.rule(name)... statement, as the chain spells it
rule(name, test, include, exclude, uses) ==
  [name |-> name, test |-> test, include |-> include, exclude |-> exclude,
   uses |-> uses]

\* lines 68-79: the rule for the app and page entry files
createAppOrPageConfigRule(entries) ==
  rule("createAppOrPageConfig", matcher,
       <<Str(entries.app)>>
         \o [i \in 1..Len(entries.pages) |-> Str(entries.pages[i])],
       <<>>,
       << use("babel", loaderOf(idBabel),
              [usePlugins |-> << [plugin |-> "app", arg |-> <<entries.app>>],
                                 [plugin |-> "page", arg |-> entries.pages] >>,
               reactPreset |-> FALSE]) >>)

\* lines 81-93: the general compilation rule
compilationRule(options) ==
  rule("compilation", matcher, <<>>, <<>>,
       << use("babel", loaderOf(idBabel),
              [usePlugins |-> << [plugin |-> "nativeComponents", arg |-> options],
                                 [plugin |-> "components", arg |-> options] >>,
               reactPreset |-> TRUE]) >>)

\* lines 112-133: the plain style rule and its preprocessors
stylesRule(options) ==
  LET cssModuleConfig == getCssModuleConfig(options.cssModules)
      pre == preprocessCssRules(options)
  IN rule("styles", RegExp("styles"), <<>>,
          << IF cssModuleConfig.enabled THEN cssModuleConfig.regExp
             ELSE EmptyString >>,
          << use("cssExtract", MiniCssExtractLoader, NoOptions),
             use("css", loaderOf(idCss), [importLoaders |-> Len(pre)]) >>
            \o pre)

\* lines 136-160: the css-modules rule, declared only when enabled
cssModulesStylesRule(options) ==
  LET cssModuleConfig == getCssModuleConfig(options.cssModules)
      pre == preprocessCssRules(options)
  IN IF cssModuleConfig.enabled
       THEN << rule("cssModulesStyles", cssModuleConfig.regExp,
                    <<cssModuleConfig.regExp>>, <<>>,
                    << use("MiniCssExtractPlugin.loader", MiniCssExtractLoader,
                           NoOptions),
                       use("css", loaderOf(idCss),
                           [importLoaders |-> Len(pre), modules |-> TRUE]) >>
                      \o pre) >>
       ELSE <<>>

\* lines 162-184: json, the define rule, images and platform files
assetRules ==
  << rule("json", RegExp("json"), <<>>, <<>>,
          << use("json", loaderOf(idJson), NoOptions) >>),
     rule("remaxDefineVariables", RegExp("remaxDefine"), <<>>, <<>>,
          << use("remax-define", loaderOf(idRemaxDefine), NoOptions) >>),
     rule("images", RegExp("images"), <<>>, <<>>,
          << use("file", loaderOf(idFile), NoOptions) >>),
     rule("resolvePlatformFiles", matcher, <<>>, <<>>,
          << use("resolve-platform", loaderOf(idResolvePlatform), NoOptions) >>) >>

\* lines 58-184: everything before the plugins
rules(cfg, options, entries, nodeEnvNow) ==
  ruleChains(settings(cfg, options, nodeEnvNow),
             << createAppOrPageConfigRule(entries),
                compilationRule(options),
                stylesRule(options) >>
               \o cssModulesStylesRule(options)
               \o assetRules)

\* The identifiers the module uses without importing or declaring them.
FreeIdentifiers == {"VirtualModulePlugin", "meta"}

\* the user's options.configWebpack of the model
Hooks == {"none", "marker", "throws"}

\* options.configWebpack(config) for a function hook
configWebpack(cfg, hook) ==
  IF hook = "marker" THEN pluginUse(cfg, [name |-> "marker", args |-> NoOptions])
  ELSE cfg

pluginArgs(name, args) == [name |-> name, args |-> args]

\* lines 186-202: the plugins registered before optimizeEntries
pluginsBeforeMeta(options, env) ==
  << pluginArgs("virtualModule", [moduleName |-> indexFile]) >>
  \o (IF options.progress THEN << pluginArgs("progress", NoOptions) >> ELSE <<>>)
  \o << pluginArgs("define", env.stringified),
        pluginArgs("cssExtract", [filename |-> "[name]"]) >>

\* lines 203-208: optimizeEntries, nativeFiles and, in production, clean
pluginsFromMeta(options, nodeEnvNow) ==
  << pluginArgs("optimizeEntries", NoOptions),
     pluginArgs("nativeFiles", [options |-> options]) >>
  \o (IF nodeEnvNow = "production" THEN << pluginArgs("clean", NoOptions) >> ELSE <<>>)

callResult(outcome, cfg, hookCalls, entryMap, error) ==
  [outcome |-> outcome, config |-> cfg, hookCalls |-> hookCalls,
   entryMap |-> entryMap, error |-> error]

\* The whole call.  `bound` is the set of free identifiers the process binds
\* as globals: reading an unbound one raises a ReferenceError, after the
\* builder has been changed by everything evaluated before it.
webpackConfig(cfg, options, target, nodeEnvNow, bound) ==
  LET prep == prepare(options, target, nodeEnvNow)
      r == rules(cfg, options, prep.entries, nodeEnvNow)
      p1 == pluginsUse(r, pluginsBeforeMeta(options, prep.env))
      p2 == pluginsUse(p1, pluginsFromMeta(options, nodeEnvNow))
  IN IF "VirtualModulePlugin" \notin bound
       \* line 186: config.plugin('virtualModule') is evaluated, then the
       \* argument VirtualModulePlugin
       THEN callResult("threw", plugin(r, "virtualModule"), 0, prep.entryMap,
                       "ReferenceError")
     ELSE IF "meta" \notin bound
       \* line 203: config.plugin('optimizeEntries') is evaluated, then meta
       THEN callResult("threw", plugin(p1, "optimizeEntries"), 0, prep.entryMap,
                       "ReferenceError")
     ELSE IF options.configWebpack = "throws"
       THEN callResult("threw", p2, 1, prep.entryMap, "HookError")
     ELSE callResult("returned", configWebpack(p2, options.configWebpack),
                     IF options.configWebpack = "none" THEN 0 ELSE 1,
                     prep.entryMap, "none")


(***************************************************************************)
(* Inputs.                                                                 *)
(***************************************************************************)
\* sequences over S of length at most n
SeqsUpTo(S, n) == UNION {[1..k -> S] : k \in 0..n}

\* those without a repeated element
DistinctSeqsUpTo(S, n) ==
  {q \in SeqsUpTo(S, n) : \A i, j \in 1..Len(q) : q[i] = q[j] => i = j}

\* process.env.NODE_ENV
NodeEnvs == {"unset", "development", "production"}

Targets == {"web"}

\* options.cssModules
CssModuleOptions ==
  { [enabled |-> FALSE, regExp |-> "R1"],
    [enabled |-> TRUE, regExp |-> "R1"],
    [enabled |-> TRUE, regExp |-> "R2"] }

\* the RemaxOptions webpackConfig is called with
CallOptions ==
  [cwd : {cwd}, rootDir : {rootDir}, output : {<<"d","i","s","t">>},
   app : {appJs}, pages : DistinctSeqsUpTo({pageAJs}, MaxPages),
   cssModules : CssModuleOptions, progress : BOOLEAN, configWebpack : Hooks]

\* the entries prepare is exercised with on its own
PrepareOptions ==
  [cwd : {cwd}, rootDir : {rootDir}, app : {appJs, appTs},
   pages : SeqsUpTo({appTs, pageAJs, pageATs, pageBJs, pageAJsx}, MaxPages)]

(***************************************************************************)
(* State.                                                                  *)
(***************************************************************************)
VARIABLES
  config,   \* the module-level builder of line 23
  nodeEnv,  \* process.env.NODE_ENV
  bound,    \* the free identifiers the process binds as globals
  calls,    \* webpackConfig calls made so far
  last,     \* the latest webpackConfig call: inputs, outcome, returned value
  ld,       \* one useLoader(id) call: inputs, position, result
  pr        \* one prepare(options, target) call: inputs, position, result

vars == <<config, nodeEnv, bound, calls, last, ld, pr>>

NoCall ==
  [outcome |-> "none",
   options |-> [cwd |-> cwd, rootDir |-> rootDir, output |-> <<"d","i","s","t">>,
                app |-> appJs, pages |-> <<>>,
                cssModules |-> [enabled |-> FALSE, regExp |-> "R1"],
                progress |-> FALSE, configWebpack |-> "none"],
   target |-> "web",
   nodeEnv |-> "unset",
   hookCalls |-> 0,
   entryMap |-> <<>>,
   error |-> "none",
   result |-> toConfig(EmptyConfig)]

LoaderIdle ==
  [pc |-> "idle", id |-> idCss, probe |-> "absent", installed |-> TRUE,
   result |-> Thrown("none")]

PrepareIdle ==
  [pc |-> "idle",
   options |-> [cwd |-> cwd, rootDir |-> rootDir, app |-> appJs, pages |-> <<>>],
   entryMap |-> <<>>, outcome |-> "none"]

(***************************************************************************)
(* Spec: a process that calls webpackConfig repeatedly.                    *)
(***************************************************************************)
Init ==
  /\ config = EmptyConfig
  /\ nodeEnv \in NodeEnvs
  /\ bound \in SUBSET FreeIdentifiers
  /\ calls = 0
  /\ last = NoCall
  /\ ld = LoaderIdle
  /\ pr = PrepareIdle

\* webpackConfig(options, target)
Call(options, target) ==
  /\ calls < MaxCalls
  /\ \E res \in {webpackConfig(config, options, target, nodeEnv, bound)} :
        /\ config' = res.config
        /\ last' = [outcome |-> res.outcome,
                    options |-> options,
                    target |-> target,
                    nodeEnv |-> nodeEnv,
                    hookCalls |-> res.hookCalls,
                    entryMap |-> res.entryMap,
                    error |-> res.error,
                    result |-> IF res.outcome = "returned"
                                 THEN toConfig(res.config)
                                 ELSE toConfig(EmptyConfig)]
  /\ calls' = calls + 1
  /\ UNCHANGED <<nodeEnv, bound, ld, pr>>

\* the caller sets process.env.NODE_ENV between two calls
SetNodeEnv(v) ==
  /\ calls < MaxCalls
  /\ v # nodeEnv
  /\ nodeEnv' = v
  /\ UNCHANGED <<config, bound, calls, last, ld, pr>>

Next ==
  \/ \E options \in CallOptions, target \in Targets : Call(options, target)
  \/ \E v \in NodeEnvs : SetNodeEnv(v)

Spec == Init /\ [][Next]_vars

(***************************************************************************)
(* SpecLoader: useLoader(id) under every outcome of the existence probe.   *)
(***************************************************************************)
InitLoader ==
  /\ config = EmptyConfig
  /\ nodeEnv = "unset"
  /\ bound = FreeIdentifiers
  /\ calls = 0
  /\ last = NoCall
  /\ pr = PrepareIdle
  /\ ld \in [pc : {"start"}, id : LoaderIds, probe : ProbeOutcomes,
             installed : BOOLEAN, result : {Thrown("none")}]

UseLoader ==
  /\ ld.pc = "start"
  /\ ld' = [ld EXCEPT !.pc = "done",
                      !.result = useLoader(ld.id, ld.probe, ld.installed)]
  /\ UNCHANGED <<config, nodeEnv, bound, calls, last, pr>>

NextLoader == UseLoader

SpecLoader == InitLoader /\ [][NextLoader]_vars

(***************************************************************************)
(* SpecPrepare: prepare(options, target) on its own.                       *)
(***************************************************************************)
InitPrepare ==
  /\ config = EmptyConfig
  /\ nodeEnv = "unset"
  /\ bound = FreeIdentifiers
  /\ calls = 0
  /\ last = NoCall
  /\ ld = LoaderIdle
  /\ pr \in [pc : {"start"}, options : PrepareOptions,
             entryMap : {<<>>}, outcome : {"none"}]

\* prepare has no throw statement: it returns whatever the reduction built
Prepare ==
  /\ pr.pc = "start"
  /\ pr' = [pr EXCEPT !.pc = "done",
                      !.entryMap = prepare(pr.options, "web", nodeEnv).entryMap,
                      !.outcome = "returned"]
  /\ UNCHANGED <<config, nodeEnv, bound, calls, last, ld>>

NextPrepare == Prepare

SpecPrepare == InitPrepare /\ [][NextPrepare]_vars

(***************************************************************************)
(* Files the rules of a returned configuration are evaluated against.      *)
(***************************************************************************)
plainCss == <<"/","w","/","s","/","x",".","c","s","s">>
moduleCss == <<"/","w","/","s","/","x",".","m",".","c","s","s">>
upperCss == <<"/","w","/","s","/","X",".","C","S","S">>
plainLess == <<"/","w","/","s","/","x",".","l","e","s","s">>
componentJs == <<"/","w","/","s","/","c",".","j","s">>
componentTsx == <<"/","w","/","s","/","c",".","t","s","x">>

StyleFiles == {plainCss, moduleCss, upperCss, plainLess}

ScriptFiles == {appJs, pageAJs, componentJs, componentTsx}

\* the rule called name in a returned configuration
ruleNamed(result, name) == result.rules[indexOfNamed(result.rules, name)]

\* a css loader with modules: true among the uses of a rule
hasModulesUse(r) ==
  \E j \in 1..Len(r.uses) :
     /\ "modules" \in DOMAIN r.uses[j].options
     /\ r.uses[j].options.modules

\* the babel use of a rule has the given reactPreset
reactPresetIs(r, v) ==
  /\ hasNamed(r.uses, "babel")
  /\ r.uses[indexOfNamed(r.uses, "babel")].options.reactPreset = v

\* the entry files of the latest call
isEntry(options, f) ==
  \/ f = options.app
  \/ \E i \in 1..Len(options.pages) : f = options.pages[i]

\* the plugins webpackConfig itself registers
BuiltInPlugins ==
  {"virtualModule", "progress", "define", "cssExtract", "optimizeEntries",
   "nativeFiles", "clean"}

(***************************************************************************)
(* The claims about webpackConfig, checked under Spec.                     *)
(***************************************************************************)
\* C1: the configuration a call returns is the one the same call returns as
\* the first call of a fresh process (same options, target, NODE_ENV and
\* globals), whatever calls were made before it.
C1_ReturnedConfigDependsOnlyOnInputs ==
  last.outcome = "returned" =>
    last.result =
      toConfig(webpackConfig(EmptyConfig, last.options, last.target,
                             last.nodeEnv, bound).config)

\* C2: a call with cssModules.enabled false returns no module-scoped rule (no
\* 'cssModulesStyles' rule, no css use with modules: true) and its 'styles'
\* rule applies to every style file, under the reading of the condition ''
\* that favours the claim.
C2_DisabledCssModulesRouteThroughPlainRule ==
  (last.outcome = "returned" /\ ~last.options.cssModules.enabled) =>
    /\ ~hasNamed(last.result.rules, "cssModulesStyles")
    /\ \A i \in 1..Len(last.result.rules) : ~hasModulesUse(last.result.rules[i])
    /\ hasNamed(last.result.rules, "styles")
    /\ \E reading \in EmptyStringReadings :
         \A f \in StyleFiles :
            RuleApplies(ruleNamed(last.result, "styles"), f, reading)

\* C3: a call with cssModules.enabled true returns a 'styles' rule and a
\* 'cssModulesStyles' rule that split the style files: a file matching
\* cssModules.regExp is claimed by the module rule only, any other style file
\* by the plain rule only.
C3_EnabledCssModulesRulesAreExclusive ==
  (last.outcome = "returned" /\ last.options.cssModules.enabled) =>
    /\ hasNamed(last.result.rules, "styles")
    /\ hasNamed(last.result.rules, "cssModulesStyles")
    /\ \E reading \in EmptyStringReadings :
         \A f \in StyleFiles :
            LET plain == RuleApplies(ruleNamed(last.result, "styles"), f, reading)
                scoped == RuleApplies(ruleNamed(last.result, "cssModulesStyles"),
                                      f, reading)
            IN IF RegExpTest(last.options.cssModules.regExp, f)
                 THEN scoped /\ ~plain
                 ELSE plain /\ ~scoped

\* C4: a call whose configWebpack is a function runs it exactly once, and the
\* marker plugin the function adds comes after every built-in plugin in the
\* returned plugin list.
C4_HookRunsOnceAfterBuiltIns ==
  (last.outcome = "returned" /\ last.options.configWebpack = "marker") =>
    /\ last.hookCalls = 1
    /\ hasNamed(last.result.plugins, "marker")
    /\ \A i \in 1..Len(last.result.plugins) :
          last.result.plugins[i].name \in BuiltInPlugins =>
            i < indexOfNamed(last.result.plugins, "marker")

\* C5: without a hook, a returned configuration in mode 'production' has the
\* 'clean' plugin and devtool false; one in mode 'development' has no 'clean'
\* plugin and devtool 'cheap-module-source-map'.
C5_ModeCleanAndDevtoolAgree ==
  (last.outcome = "returned" /\ last.options.configWebpack = "none") =>
    /\ last.result.mode = "production" =>
         /\ hasNamed(last.result.plugins, "clean")
         /\ last.result.devtool = "false"
    /\ last.result.mode = "development" =>
         /\ ~hasNamed(last.result.plugins, "clean")
         /\ last.result.devtool = "cheap-module-source-map"

\* C6: the entry setting of a returned configuration is the EntryMap prepare
\* computed for the call: one entry per logical name, mapped to its file.
C6_EntryIsTheEntryMap ==
  last.outcome = "returned" =>
    { <<last.result.entry[i].name, last.result.entry[i].files>> :
        i \in 1..Len(last.result.entry) }
      = { <<last.entryMap[i].name, <<last.entryMap[i].entry>> >> :
            i \in 1..Len(last.entryMap) }

\* C7: in a returned rule list 'createAppOrPageConfig' (reactPreset false)
\* comes before 'compilation' (reactPreset true); an entry file of the call
\* is handled by the first and not the second, any other script file by the
\* second and not the first.
C7_ScriptRulesPartitionSources ==
  last.outcome = "returned" =>
    /\ hasNamed(last.result.rules, "createAppOrPageConfig")
    /\ hasNamed(last.result.rules, "compilation")
    /\ indexOfNamed(last.result.rules, "createAppOrPageConfig")
         < indexOfNamed(last.result.rules, "compilation")
    /\ reactPresetIs(ruleNamed(last.result, "createAppOrPageConfig"), FALSE)
    /\ reactPresetIs(ruleNamed(last.result, "compilation"), TRUE)
    /\ \A f \in ScriptFiles, reading \in EmptyStringReadings :
          LET entryRule == RuleApplies(ruleNamed(last.result, "createAppOrPageConfig"),
                                       f, reading)
              general == RuleApplies(ruleNamed(last.result, "compilation"),
                                     f, reading)
          IN IF isEntry(last.options, f)
               THEN entryRule /\ ~general
               ELSE general /\ ~entryRule

(***************************************************************************)
(* The claims about prepare, checked under SpecPrepare.                    *)
(***************************************************************************)
\* the entry list of the options prepare ran on
entryList(options) == <<options.app>> \o options.pages

\* two distinct entry files with the same logical name
Collides(options) ==
  \E i, j \in 1..Len(entryList(options)) :
     /\ entryList(options)[i] # entryList(options)[j]
     /\ entryName(options, entryList(options)[i])
          = entryName(options, entryList(options)[j])

\* the entry files are pairwise distinct paths
DistinctEntries(options) ==
  \A i, j \in 1..Len(entryList(options)) :
     entryList(options)[i] = entryList(options)[j] => i = j

\* C8: when two distinct entry files have the same logical name, building the
\* entry map raises a configuration-conflict error and returns no map.
C8_CollisionRaises ==
  (pr.pc = "done" /\ Collides(pr.options)) => pr.outcome = "threw"

\* C9: for one app entry and N pairwise-distinct page entries the EntryMap has
\* exactly N+1 keys, no two entries sharing one.
C9_OneKeyPerEntry ==
  (pr.pc = "done" /\ DistinctEntries(pr.options)) =>
    /\ Len(pr.entryMap) = Len(pr.options.pages) + 1
    /\ Cardinality(objectKeys(pr.entryMap)) = Len(pr.options.pages) + 1

(***************************************************************************)
(* The claim about useLoader, checked under SpecLoader.                    *)
(***************************************************************************)
\* C10: useLoader(id) returns the local override path exactly when the probe
\* reports the file present; when the file is absent or the probe fails it
\* returns the default '<id>-loader' binding (the resolution's own
\* MODULE_NOT_FOUND when that package is not installed) and never raises the
\* probe's error.
C10_OverrideExactlyWhenPresent ==
  ld.pc = "done" =>
    /\ ld.result = Returned(loaderPath(ld.id)) <=> ld.probe = "present"
    /\ (ld.probe # "present" /\ ld.installed) =>
         ld.result = Returned(defaultBinding(ld.id))
    /\ (ld.probe # "present" /\ ~ld.installed) =>
         ld.result = Thrown("MODULE_NOT_FOUND")
    /\ ld.result.error # "ProbeError"

\* the probe failed and the default binding came back
C10_ProbeErrorFallsBack ==
  /\ ld.pc = "done"
  /\ ld.probe = "error"
  /\ ld.installed
  /\ ld.result = Returned(defaultBinding(ld.id))

==========================================================================
